---------------------------- MODULE Spec2Model ----------------------------
(***************************************************************************)
(* A model of get_dazai_writings.py: the text cleaner clean_aozora_text,   *)
(* the per-source pipeline download_and_process_aozora and the assembler   *)
(* main.                                                                   *)
(*                                                                         *)
(* A text is a sequence of tokens.  Each token stands for one character    *)
(* of the Python string, except the three fixed strings the code searches  *)
(* for as a whole:                                                         *)
(*     "<"  U+300A (ruby open)       ">"  U+300B (ruby close)              *)
(*     "["  U+FF3B (note open)       "#"  U+FF03                           *)
(*     "]"  U+FF3D (note close)      "|"  U+FF5C (ruby separator)          *)
(*     "NL" the newline              "_"  a whitespace character           *)
(*     "a", "b"  ordinary characters                                       *)
(*     "R"  the row of 57 hyphens    "K1" the colophon marker (3 chars)    *)
(*     "K2" the parent-edition colophon marker (6 chars)                   *)
(* Indices start_idx and end_idx keep Python's 0-based values.             *)
(***************************************************************************)
EXTENDS Integers, Sequences, FiniteSets, TLC

VARIABLES
    \* --- the cleaner applied to one text, then to its own output ---
    pc,            \* "idle" | "input" | "cleaned" | "recleaned"
    text,          \* the argument of clean_aozora_text
    res,           \* the locals and the result of the first call
    res2,          \* the locals and the result of the call on res.cleaned_text
    \* --- a sequence of runs of main ---
    mpc,           \* "idle" | "loop" | "reported" | "aborted"
    run,           \* number of the current run, from 1
    idx,           \* number of sources of dazai_urls already iterated
    outcomes,      \* what each iterated source met, in iteration order
    processed,     \* the sources for which download_and_process_aozora was called
    full_corpus,   \* the accumulator
    console,       \* the per-source status lines: "Done" | "Failed"
    file,          \* the output file: [exists, content]
    file_before,   \* the output file as the current run found it
    report         \* the final console line: [kind, total_chars]

vars == <<pc, text, res, res2, mpc, run, idx, outcomes, processed,
          full_corpus, console, file, file_before, report>>

cleanVars == <<pc, text, res, res2>>
mainVars == <<mpc, run, idx, outcomes, processed, full_corpus, console,
              file, file_before, report>>

-----------------------------------------------------------------------------
(* Bounds of the model *)

MaxLen == 5
MaxLines == 5
MaxSpans == 4
NumSources == 3
MaxRuns == 2

-----------------------------------------------------------------------------
(* Text helpers *)

\* the number of Python characters a token stands for
TokLen(c) == CASE c = "R" -> 57 [] c = "K1" -> 3 [] c = "K2" -> 6 [] OTHER -> 1

RECURSIVE CharLen(_)
\* len(t) of the Python string
CharLen(t) == IF t = <<>> THEN 0 ELSE TokLen(Head(t)) + CharLen(Tail(t))

\* the least index q >= from with t[q] = c, or 0
RECURSIVE IndexFrom(_, _, _)
IndexFrom(t, c, from) ==
    IF from > Len(t) THEN 0
    ELSE IF t[from] = c THEN from
    ELSE IndexFrom(t, c, from + 1)

Drop(t, n) == SubSeq(t, n + 1, Len(t))

\* re.sub(r"<[^>]+>", "", t): leftmost non-overlapping matches, each an
\* opening bracket, one or more characters other than the closing bracket
\* (newlines included), and the closing bracket
RECURSIVE SubRuby(_)
SubRuby(t) ==
    IF t = <<>> THEN <<>>
    ELSE LET q == IndexFrom(t, ">", 2)
         IN  IF Head(t) = "<" /\ q > 2
             THEN SubRuby(Drop(t, q))
             ELSE <<Head(t)>> \o SubRuby(Tail(t))

\* re.sub(r"[#[^]]+]", "", t)
RECURSIVE SubNote(_)
SubNote(t) ==
    IF t = <<>> THEN <<>>
    ELSE LET q == IndexFrom(t, "]", 3)
         IN  IF Head(t) = "[" /\ Len(t) >= 2 /\ t[2] = "#" /\ q > 3
             THEN SubNote(Drop(t, q))
             ELSE <<Head(t)>> \o SubNote(Tail(t))

\* a substitution that stops after the first match (count=1)
SubBarFirstOnly(t) ==
    LET q == IndexFrom(t, "|", 1)
    IN  IF q = 0 THEN t ELSE SubSeq(t, 1, q - 1) \o Drop(t, q)

\* re.sub(r"|", "", t)
SubBar(t) == SelectSeq(t, LAMBDA c : c # "|")

\* t.split("\n"): always at least one line
RECURSIVE Split(_)
Split(t) ==
    LET q == IndexFrom(t, "NL", 1)
    IN  IF q = 0 THEN <<t>>
        ELSE <<SubSeq(t, 1, q - 1)>> \o Split(Drop(t, q))

\* "NL".join(ls)
RECURSIVE Join(_, _)
Join(ls, sep) ==
    IF ls = <<>> THEN <<>>
    ELSE IF Len(ls) = 1 THEN ls[1]
    ELSE ls[1] \o sep \o Join(Tail(ls), sep)

\* rule in line
HasRule(line) == \E k \in 1..Len(line) : line[k] = "R"

\* line.startswith(marker 1) or line.startswith(marker 2)
StartsWithMarker(line) == line # <<>> /\ line[1] \in {"K1", "K2"}

\* line.rstrip()
RECURSIVE RStrip(_)
RStrip(line) ==
    IF line = <<>> THEN <<>>
    ELSE IF line[Len(line)] = "_" THEN RStrip(SubSeq(line, 1, Len(line) - 1))
    ELSE line

\* line.strip() is non-empty
NonBlank(line) == \E k \in 1..Len(line) : line[k] # "_"

-----------------------------------------------------------------------------
(* clean_aozora_text *)

\* the header loop from line number i (1-based) with count rules seen so
\* far: the loop's separator_count, start_idx and the loop variable line as
\* the loop leaves them
RECURSIVE HeaderLoop(_, _, _)
HeaderLoop(lines, i, count) ==
    IF i > Len(lines)
    THEN [separator_count |-> count, start_idx |-> 0, line |-> lines[Len(lines)]]
    ELSE IF HasRule(lines[i])
         THEN IF count + 1 = 2
              THEN [separator_count |-> 2, start_idx |-> i, line |-> lines[i]]
              ELSE HeaderLoop(lines, i + 1, count + 1)
         ELSE HeaderLoop(lines, i + 1, count)

\* a footer loop that tests the line it iterates over
FooterTestedIterated(lines, i, line) == lines[i + 1]

\* the line the footer loop tests at its iteration i (0-based): the code
\* reads the variable line, which the footer loop never assigns
FooterTested(lines, i, line) == line

\* the footer loop from i (0-based): end_idx as the loop leaves it
RECURSIVE FooterLoop(_, _, _)
FooterLoop(lines, i, line) ==
    IF i >= Len(lines) THEN Len(lines)
    ELSE IF StartsWithMarker(FooterTested(lines, i, line)) THEN i
    ELSE FooterLoop(lines, i + 1, line)

\* the blank-line filter, the right-trim and the join
JoinKept(cleaned_lines) ==
    LET kept == SelectSeq(cleaned_lines, NonBlank)
    IN  Join([k \in 1..Len(kept) |-> RStrip(kept[k])], <<"NL">>)

\* the three substitutions, in the code's order
StripMarkup(t) == SubBar(SubNote(SubRuby(t)))

\* the whole function: its locals and its result
CleanAozoraText(t) ==
    LET stripped == StripMarkup(t)
        lines == Split(stripped)
        h == HeaderLoop(lines, 1, 0)
        end_idx == FooterLoop(lines, h.start_idx, h.line)
        start_idx == IF h.separator_count < 2 THEN 0 ELSE h.start_idx
    IN  [stripped |-> stripped,
         lines |-> lines,
         separator_count |-> h.separator_count,
         scan_start |-> h.start_idx,
         line |-> h.line,
         start_idx |-> start_idx,
         end_idx |-> end_idx,
         cleaned_text |-> JoinKept(SubSeq(lines, start_idx + 1, end_idx))]

-----------------------------------------------------------------------------
(* The cleaner applied to one text, then to its own output *)

NoRes ==
    [stripped |-> <<>>, lines |-> <<>>, separator_count |-> 0, scan_start |-> 0,
     line |-> <<>>, start_idx |-> 0, end_idx |-> 0, cleaned_text |-> <<>>]

NoFile == [exists |-> FALSE, content |-> <<>>]
NoReport == [kind |-> "none", total_chars |-> 0]

\* the characters the three substitutions and the split tell apart
MarkupAlphabet == {"a", "NL", "<", ">", "[", "#", "]", "|"}

\* whole spans, well formed or not, and the text around them
SpanKinds ==
    {<<"a">>, <<"|">>, <<"NL">>, <<"<", "a", ">">>, <<"<", "b", "|", ">">>,
     <<"[", "#", "a", "]">>, <<"[", "#", "<", "a", ">", "]">>, <<"<", ">">>,
     <<"[", "#", "]">>}

\* the lines the header scan, the footer scan and the filter tell apart
LineKinds ==
    {<<>>, <<"a">>, <<"b", "_">>, <<"_">>, <<"R">>, <<"K1", "a">>, <<"K2">>,
     <<"K1", "R">>, <<"<", "a", ">">>}

\* the argument is one of: a text of up to MaxLen characters of
\* MarkupAlphabet, up to MaxSpans pieces of SpanKinds in a row, or up to
\* MaxLines lines of LineKinds
IsInput(t) ==
    \/ \E n \in 0..MaxLen : \E cs \in [1..n -> MarkupAlphabet] : t = cs \o <<>>
    \/ \E n \in 0..MaxSpans : \E ps \in [1..n -> SpanKinds] : t = Join(ps \o <<>>, <<>>)
    \/ \E n \in 1..MaxLines : \E ls \in [1..n -> LineKinds] : t = Join(ls \o <<>>, <<"NL">>)

InitClean ==
    /\ pc = "input"
    /\ IsInput(text)
    /\ res = NoRes
    /\ res2 = NoRes
    /\ mpc = "idle"
    /\ run = 0
    /\ idx = 0
    /\ outcomes = <<>>
    /\ processed = <<>>
    /\ full_corpus = <<>>
    /\ console = <<>>
    /\ file = NoFile
    /\ file_before = NoFile
    /\ report = NoReport

\* clean_aozora_text(text)
Clean ==
    /\ pc = "input"
    /\ res' = CleanAozoraText(text)
    /\ pc' = "cleaned"
    /\ UNCHANGED <<text, res2>>
    /\ UNCHANGED mainVars

\* clean_aozora_text(clean_aozora_text(text))
Reclean ==
    /\ pc = "cleaned"
    /\ res2' = CleanAozoraText(res.cleaned_text)
    /\ pc' = "recleaned"
    /\ UNCHANGED <<text, res>>
    /\ UNCHANGED mainVars

NextClean == Clean \/ Reclean

SpecClean == InitClean /\ [][NextClean]_vars

-----------------------------------------------------------------------------
(* download_and_process_aozora *)

\* the decoded texts a source's archive may hold
RawTexts ==
    {<<"a", "<", "b", ">">>,
     <<"R", "NL", "R", "NL", "b", "_", "NL", "NL", "a">>,
     <<"[", "#", "a", "]", "NL">>}

\* clean_aozora_text(raw_text) for each of them
CleanedRaw == [t \in RawTexts |-> CleanAozoraText(t).cleaned_text]

\* what a source meets: the GET fails or returns an error status, the bytes
\* are no archive, the archive has no .txt entry, or it has one
Outcomes ==
    {[kind |-> k, raw |-> <<>>] : k \in {"transport", "badzip", "notxt"}}
        \cup {[kind |-> "text", raw |-> t] : t \in RawTexts}

\* the body of the try block: the exception it raises ("none": it returns)
\* and the value it returns
TryBody(o) ==
    CASE o.kind = "transport" -> [exc |-> "RequestException", text |-> <<>>]
      [] o.kind = "badzip" -> [exc |-> "BadZipFile", text |-> <<>>]
      [] o.kind = "notxt" -> [exc |-> "none", text |-> <<>>]
      [] o.kind = "text" ->
             [exc |-> "none", text |-> CleanedRaw[o.raw]]

\* a handler for the transport errors only (except requests.RequestException)
HandlesRequestErrorsOnly(exc) == exc = "RequestException"

\* except Exception: every exception class the try block can raise
Handles(exc) == exc \in {"RequestException", "BadZipFile"}

\* the call as main sees it: raised (an exception leaves the function) or
\* the returned text
DownloadAndProcess(o) ==
    LET r == TryBody(o)
    IN  IF r.exc = "none" THEN [raised |-> FALSE, text |-> r.text]
        ELSE IF Handles(r.exc) THEN [raised |-> FALSE, text |-> <<>>]
        ELSE [raised |-> TRUE, text |-> <<>>]

-----------------------------------------------------------------------------
(* main, run after run on the same file system *)

RECURSIVE SumLen(_)
\* sum(len(t) for t in corpus)
SumLen(corpus) ==
    IF corpus = <<>> THEN 0 ELSE CharLen(Head(corpus)) + SumLen(Tail(corpus))

\* a test that only asks for a value (if text is not None:)
TruthyAlways(t) == TRUE

\* if text: / if full_corpus: (a non-empty string or list is true)
Truthy(t) == t # <<>>

\* a join by a single newline
WrittenSingleNewline(corpus) == Join(corpus, <<"NL">>)

\* the content written for the accumulator
Written(corpus) == Join(corpus, <<"NL", "NL">>)

\* a file opened for appending (mode "a")
FileAfterAppend(old, content) ==
    [exists |-> TRUE, content |-> old.content \o content]

\* the file after open(OUTPUT_FILE, "w") and f.write(content): mode "w"
\* creates the file or truncates it
FileAfterWrite(old, content) == [exists |-> TRUE, content |-> content]

Init ==
    /\ pc = "idle"
    /\ text = <<>>
    /\ res = NoRes
    /\ res2 = NoRes
    /\ mpc = "loop"
    /\ run = 1
    /\ idx = 0
    /\ outcomes = <<>>
    /\ processed = <<>>
    /\ full_corpus = <<>>
    /\ console = <<>>
    /\ file = NoFile
    /\ file_before = NoFile
    /\ report = NoReport

\* one iteration of the for loop over dazai_urls
ProcessSource ==
    /\ mpc = "loop"
    /\ idx < NumSources
    /\ \E o \in Outcomes :
          LET r == DownloadAndProcess(o)
          IN  /\ outcomes' = Append(outcomes, o)
              /\ processed' = Append(processed, idx + 1)
              /\ IF r.raised
                 THEN /\ mpc' = "aborted"
                      /\ UNCHANGED <<idx, full_corpus, console>>
                 ELSE /\ mpc' = "loop"
                      /\ idx' = idx + 1
                      /\ IF Truthy(r.text)
                         THEN /\ full_corpus' = Append(full_corpus, r.text)
                              /\ console' = Append(console, "Done")
                         ELSE /\ full_corpus' = full_corpus
                              /\ console' = Append(console, "Failed")
    /\ UNCHANGED <<run, file, file_before, report>>
    /\ UNCHANGED cleanVars

\* after the loop, if full_corpus: write the file and print the summary
SaveCorpus ==
    /\ mpc = "loop"
    /\ idx = NumSources
    /\ Truthy(full_corpus)
    /\ file' = FileAfterWrite(file, Written(full_corpus))
    /\ report' = [kind |-> "completed", total_chars |-> SumLen(full_corpus)]
    /\ mpc' = "reported"
    /\ UNCHANGED <<run, idx, outcomes, processed, full_corpus, console, file_before>>
    /\ UNCHANGED cleanVars

\* after the loop, else: print the "no data" line
ReportNoData ==
    /\ mpc = "loop"
    /\ idx = NumSources
    /\ ~Truthy(full_corpus)
    /\ report' = [kind |-> "nodata", total_chars |-> 0]
    /\ mpc' = "reported"
    /\ UNCHANGED <<run, idx, outcomes, processed, full_corpus, console, file,
                   file_before>>
    /\ UNCHANGED cleanVars

\* the program is started again: a new process, the same file system
NextRun ==
    /\ mpc = "reported"
    /\ run < MaxRuns
    /\ run' = run + 1
    /\ mpc' = "loop"
    /\ idx' = 0
    /\ outcomes' = <<>>
    /\ processed' = <<>>
    /\ full_corpus' = <<>>
    /\ console' = <<>>
    /\ report' = NoReport
    /\ file_before' = file
    /\ UNCHANGED file
    /\ UNCHANGED cleanVars

Next == ProcessSource \/ SaveCorpus \/ ReportNoData \/ NextRun

Spec == Init /\ [][Next]_vars

-----------------------------------------------------------------------------
(* Properties of clean_aozora_text, checked under SpecClean *)

Cleaned == pc \in {"cleaned", "recleaned"}

Has(t, c) == \E k \in 1..Len(t) : t[k] = c

HasPair(t, c, d) == \E k \in 1..(Len(t) - 1) : t[k] = c /\ t[k + 1] = d

\* none of the ruby brackets, the note closer, the note opener pair and the
\* separator glyph occurs in t
NoMarkupChars(t) ==
    /\ ~Has(t, "<")
    /\ ~Has(t, ">")
    /\ ~Has(t, "]")
    /\ ~Has(t, "|")
    /\ ~HasPair(t, "[", "#")

\* a span's content: non-empty, with no bracket of either kind
SpanBody(x) == x # <<>> /\ \A k \in 1..Len(x) : x[k] \notin {"<", ">", "[", "]"}

\* every bracket of t belongs to a span <x> or [#y] with x, y span contents:
\* no empty, unmatched or nested span
RECURSIVE WellFormed(_)
WellFormed(t) ==
    IF t = <<>> THEN TRUE
    ELSE IF Head(t) = "<"
         THEN LET q == IndexFrom(t, ">", 2)
              IN  q > 2 /\ SpanBody(SubSeq(t, 2, q - 1)) /\ WellFormed(Drop(t, q))
    ELSE IF Head(t) = "["
         THEN LET q == IndexFrom(t, "]", 3)
              IN  /\ Len(t) >= 2
                  /\ t[2] = "#"
                  /\ q > 3
                  /\ SpanBody(SubSeq(t, 3, q - 1))
                  /\ WellFormed(Drop(t, q))
    ELSE Head(t) \notin {">", "]"} /\ WellFormed(Tail(t))

\* C4 as stated: for every input text the cleaned output has no occurrence
\* of the ruby brackets, the note closer, the note opener pair or the
\* separator glyph.
C4_NoMarkupForEveryInput == Cleaned => NoMarkupChars(res.cleaned_text)

\* C4 as amended: for every input text the cleaned output has no separator
\* glyph; and when every bracket of the input belongs to a non-empty,
\* non-nested span (WellFormed), the output has none of the ruby brackets,
\* the note closer or the note opener pair either.
C4_NoMarkupWhenWellFormed ==
    Cleaned =>
        /\ ~Has(res.cleaned_text, "|")
        /\ WellFormed(text) => NoMarkupChars(res.cleaned_text)

\* a well-formed input with a ruby span, a note span and a separator glyph,
\* of which some text is left
C4_Witness ==
    /\ pc = "cleaned"
    /\ WellFormed(text)
    /\ Has(text, "<")
    /\ HasPair(text, "[", "#")
    /\ Has(text, "|")
    /\ res.cleaned_text # <<>>

\* the 1-based numbers of the lines (after the substitutions) holding the rule
RuleLines(ls) == {i \in 1..Len(ls) : HasRule(ls[i])}

SetMax(S) == CHOOSE m \in S : \A n \in S : n <= m
SetMin(S) == CHOOSE m \in S : \A n \in S : m <= n

\* the 1-based numbers of the lines after line r that start with a marker
MarkerLinesAfter(ls, r) == {k \in (r + 1)..Len(ls) : StartsWithMarker(ls[k])}

\* C5: when the text has exactly two rule lines, then body lines, then a
\* line starting with the first colophon marker, the result is exactly the
\* body lines between the second rule and that line, blank lines dropped and
\* each kept line right-trimmed, joined by newlines.
C5_BodyBetweenRuleAndColophon ==
    Cleaned =>
        LET ls == res.lines
            rules == RuleLines(ls)
        IN  Cardinality(rules) = 2 =>
                LET r2 == SetMax(rules)
                    marks == MarkerLinesAfter(ls, r2)
                IN  (marks # {} /\ ls[SetMin(marks)][1] = "K1") =>
                        res.cleaned_text =
                            JoinKept(SubSeq(ls, r2 + 1, SetMin(marks) - 1))

\* the 1-based numbers of the non-blank lines
NonBlankLines(ls) == {i \in 1..Len(ls) : NonBlank(ls[i])}

\* C6: when fewer than two lines hold the rule, the body start index is 0
\* and the result begins with the first non-blank line of the text (so it
\* is non-empty when there is one).  Stated for the texts whose first
\* non-blank line is not itself a colophon line, where a footer scan of
\* the lines would keep that line too.
C6_NoHeaderKeepsFirstLine ==
    Cleaned =>
        LET ls == res.lines
            nb == NonBlankLines(ls)
        IN  Cardinality(RuleLines(ls)) < 2 =>
                /\ res.start_idx = 0
                /\ (nb # {} /\ ~StartsWithMarker(ls[SetMin(nb)])) =>
                       /\ res.cleaned_text # <<>>
                       /\ Split(res.cleaned_text)[1] = RStrip(ls[SetMin(nb)])

\* C7: when no line at or after the body start index computed by the header
\* scan starts with a colophon marker, end_idx is the number of lines and
\* the result is every non-blank line from the body start to the last line.
C7_NoColophonKeepsTail ==
    Cleaned =>
        LET ls == res.lines
        IN  MarkerLinesAfter(ls, res.scan_start) = {} =>
                /\ res.end_idx = Len(ls)
                /\ res.cleaned_text = JoinKept(SubSeq(ls, res.scan_start + 1, Len(ls)))

\* the value the header loop leaves in the variable line
LeftOverLine(ls) ==
    LET rules == RuleLines(ls)
    IN  IF Cardinality(rules) >= 2
        THEN ls[SetMin(rules \ {SetMin(rules)})]
        ELSE ls[Len(ls)]

C8_Idempotent ==
    (/\ pc = "recleaned"
     /\ WellFormed(text)
     /\ Cardinality(RuleLines(res.lines)) <= 2)
        => res2.cleaned_text = res.cleaned_text

-----------------------------------------------------------------------------
(* Properties of main, checked under Spec *)

\* the cleaned text of a source whose archive held a text
CleanedOf(o) == CleanAozoraText(o.raw).cleaned_text

\* the source passed the fetcher and the archive reader
Extracted(o) == o.kind = "text"

\* the source passed them and its cleaned text is not empty
Contributes(o) == Extracted(o) /\ CleanedOf(o) # <<>>

\* the cleaned texts of the sources that passed the fetcher and the archive
\* reader, in source order
ExtractedTexts(os) ==
    LET kept == SelectSeq(os, Extracted)
    IN  [k \in 1..Len(kept) |-> CleanedOf(kept[k])]

\* the non-empty ones among them, in source order
ContributedTexts(os) ==
    LET kept == SelectSeq(os, Contributes)
    IN  [k \in 1..Len(kept) |-> CleanedOf(kept[k])]

\* the result of a run that had the texts ts to save
RunResult(ts) ==
    IF ts # <<>>
    THEN /\ file = [exists |-> TRUE, content |-> Join(ts, <<"NL", "NL">>)]
         /\ report = [kind |-> "completed", total_chars |-> SumLen(ts)]
    ELSE /\ file = file_before
         /\ report = [kind |-> "nodata", total_chars |-> 0]

\* C1 as stated: a run ends with the file holding the cleaned texts of
\* exactly the sources that did not fail at the fetcher or the archive
\* reader, in order, joined by a blank line, and the total being the sum of
\* their lengths; if every source failed there, nothing is written and
\* "no data" is reported.
C1_FileHoldsEveryExtractedText ==
    mpc = "reported" => RunResult(ExtractedTexts(outcomes))

\* C1 as amended: the same, for exactly the sources that did not fail at
\* the fetcher or the archive reader and whose cleaned text is non-empty;
\* if there is no such source, nothing is written and "no data" is
\* reported.
C1_FileHoldsEveryNonEmptyText ==
    mpc = "reported" => RunResult(ContributedTexts(outcomes))

\* a run with a source that cleaned to the empty text between two sources
\* that contributed
C1_Witness ==
    /\ mpc = "reported"
    /\ Len(outcomes) >= 3
    /\ Contributes(outcomes[1])
    /\ Extracted(outcomes[2]) /\ ~Contributes(outcomes[2])
    /\ Contributes(outcomes[3])
    /\ outcomes[1] # outcomes[3]
    /\ report.kind = "completed"

\* what source j contributes, whatever the other sources met
Contribution(o) == IF Contributes(o) THEN <<CleanedOf(o)>> ELSE <<>>

RECURSIVE Contributions(_)
Contributions(os) ==
    IF os = <<>> THEN <<>> ELSE Contribution(Head(os)) \o Contributions(Tail(os))

\* C2: the run never aborts; the sources are processed once each, in list
\* order, whatever the earlier sources met; the accumulator holds what each
\* source contributes on its own; and the loop always has a next step, up
\* to the final report.
C2_FailureIsolation ==
    /\ mpc # "aborted"
    /\ processed = [j \in 1..idx |-> j]
    /\ Len(outcomes) = idx
    /\ full_corpus = Contributions(outcomes)
    /\ mpc = "reported" => idx = NumSources /\ report.kind \in {"completed", "nodata"}
    /\ mpc = "loop" => ENABLED (ProcessSource \/ SaveCorpus \/ ReportNoData)

\* a run reported after a transport error, a broken archive and a source
\* that contributed, in this order
C2_Witness ==
    /\ mpc = "reported"
    /\ Len(outcomes) >= 3
    /\ outcomes[1].kind = "transport"
    /\ outcomes[2].kind = "badzip"
    /\ Contributes(outcomes[3])
    /\ Len(full_corpus) = 1

\* C3 as stated: after each run the file exists iff a source succeeded in
\* that run, and then holds all and only that run's texts; it never holds
\* text of an earlier run.
C3_FileReflectsLastRun ==
    mpc = "reported" =>
        /\ file.exists <=> (ContributedTexts(outcomes) # <<>>)
        /\ file.exists =>
               file.content = Join(ContributedTexts(outcomes), <<"NL", "NL">>)

\* C3 as amended: the file is not touched while the sources are processed;
\* after a run in which a source contributed, it holds all and only that
\* run's texts, whatever it held before; after a run in which none did, it
\* is as the run found it (absent, or holding an earlier run's texts).
C3_FileOverwrittenOnlyOnSuccess ==
    /\ mpc = "loop" => file = file_before
    /\ mpc = "reported" =>
           LET ts == ContributedTexts(outcomes)
           IN  file = IF ts # <<>>
                      THEN [exists |-> TRUE, content |-> Join(ts, <<"NL", "NL">>)]
                      ELSE file_before

\* a second run that replaced the texts of the first by others
C3_Witness ==
    /\ mpc = "reported"
    /\ run = 2
    /\ file_before.exists
    /\ Len(full_corpus) >= 2
    /\ file.content # file_before.content
    /\ Len(file.content) < Len(file_before.content)

\* C10: within a run each loop iteration either appends one non-empty text
\* and prints "Done", or leaves the accumulator alone and prints "Failed",
\* the latter also for a source that was extracted but cleaned to the empty
\* text; the accumulator never has more entries than sources processed and
\* never an empty one; the save step does not change it, and the file
\* written holds one separator between consecutive non-empty texts.
C10_AccumulatorAppendOnly ==
    [][/\ (mpc = "loop" /\ mpc' = "loop") =>
              LET o == outcomes'[Len(outcomes')]
                  said == console'[Len(console')]
              IN  IF Contributes(o)
                  THEN full_corpus' = Append(full_corpus, CleanedOf(o)) /\ said = "Done"
                  ELSE full_corpus' = full_corpus /\ said = "Failed"
       /\ Len(full_corpus') <= idx'
       /\ \A k \in 1..Len(full_corpus') : full_corpus'[k] # <<>>
       /\ mpc' = "reported" => full_corpus' = full_corpus
       /\ file' # file =>
              file'.content = Join(ContributedTexts(outcomes), <<"NL", "NL">>)
      ]_vars

\* a run that saved a text although another source, extracted, cleaned to
\* the empty text and was reported "Failed"
C10_Witness ==
    /\ mpc = "reported"
    /\ full_corpus # <<>>
    /\ file.content = Written(full_corpus)
    /\ \E j \in 1..Len(outcomes) :
           /\ Extracted(outcomes[j])
           /\ CleanedOf(outcomes[j]) = <<>>
           /\ console[j] = "Failed"

=============================================================================
